---- MODULE Spec2Model ----
(***************************************************************************)
(* The control plane of the advertisement agent: AdMCPControlPlane         *)
(* (ad_control_plane.py) driving the seven modules of ad_modules.py over   *)
(* one shared task context that is saved to disk after every update.       *)
(*                                                                         *)
(* One step of the model is the code between two calls that leave the      *)
(* control plane: a module's validate_input, a module's run, the operator  *)
(* prompt (user_confirm / input) and the return of run_ad_task.            *)
(* Timestamps (create_time, update_time, the "time" of an error_log entry) *)
(* are left out: no step reads them.  Percentages are kept in hundredths   *)
(* (14.29 is 1429).                                                        *)
(***************************************************************************)
EXTENDS Integers, Sequences, FiniteSets, TLC

VARIABLES
    pc,                  \* where run_ad_task stands
    idx,                 \* position of the for loop in schedule_flow (1-based)
    phase,               \* "first": line 156 dispatch, "revise": line 196 dispatch
    context,             \* the in-memory task context (NoContext: not created)
    disk,                \* ad_context.json of the current task
    result,              \* what run_ad_task returned (NoResult: still running)
    template_error_log,  \* context_template["error_log"], one list per control plane
    shared_log,          \* context["error_log"] is the template's list object
    tasks,               \* number of run_ad_task calls on this control plane
    dispatches,          \* history: the _dispatch_module calls of the current task
    decisions,           \* history: the operator's answer at each pause node
    module_result,       \* what the last _dispatch_module call returned
    gen_call,            \* how a generation call of the last run ended (NoCall: none made)
    session_state        \* st.session_state of the browser front end, without the
                         \* control plane and the task context

vars == <<pc, idx, phase, context, disk, result, template_error_log,
          shared_log, tasks, dispatches, decisions, module_result, gen_call,
          session_state>>

-----------------------------------------------------------------------------
(* Bounds *)

\* run_ad_task calls made on one control plane
MaxTasks == 2

-----------------------------------------------------------------------------
(* Configuration: ad_agent_core.py and AdMCPControlPlane.__init__ *)

\* as schedule_flow, with two neighbouring steps exchanged
schedule_flow_swapped ==
    << "demand_interact", "story_builder", "scene_designer",
       "storyboard_designer", "image_optimizer", "grid_image_generator",
       "video_generator" >>

schedule_flow ==
    << "demand_interact", "story_builder", "scene_designer",
       "storyboard_designer", "grid_image_generator", "image_optimizer",
       "video_generator" >>

Modules == { schedule_flow[i] : i \in 1..Len(schedule_flow) }

PAUSE_NODES == << "story_builder", "storyboard_designer" >>

\* position of a module in schedule_flow: list.index, 0-based as in the code
FlowIndex(m) == (CHOOSE i \in 1..Len(schedule_flow) : schedule_flow[i] = m) - 1

\* the key  module_name + "_info"  under which a module's result is merged
InfoKey(m) ==
    CASE m = "demand_interact"      -> "demand_interact_info"
      [] m = "story_builder"        -> "story_builder_info"
      [] m = "scene_designer"       -> "scene_designer_info"
      [] m = "storyboard_designer"  -> "storyboard_designer_info"
      [] m = "grid_image_generator" -> "grid_image_generator_info"
      [] m = "image_optimizer"      -> "image_optimizer_info"
      [] m = "video_generator"      -> "video_generator_info"

\* the result slots context_template declares, each {}
TemplateSlots ==
    { "demand_info", "story_info", "scene_info", "storyboard_info",
      "grid_image_info", "hd_image_info", "video_info" }

SlotKeys == TemplateSlots \cup { InfoKey(m) : m \in Modules }

\* values of a slot: the key is not in the dict, it holds {}, or it holds the
\* result record a module returned (by: the module, rev: 1 first run, 2 revised)
NoKey    == [kind |-> "no key", by |-> "", rev |-> 0]
EmptyRec == [kind |-> "{}", by |-> "", rev |-> 0]
ResultOf(m, r) == [kind |-> "result", by |-> m, rev |-> r]

None == "None"
NoFeedback == "<no key>"

\* context_template, with task_id None written 0
context_template ==
    [ task_id       |-> 0,
      task_status   |-> "init",
      current_step  |-> None,
      progress      |-> 0,
      initial_input |-> [isDict |-> TRUE, keys |-> {}],
      slots         |-> [k \in SlotKeys |->
                            IF k \in TemplateSlots THEN EmptyRec ELSE NoKey],
      module_status |-> [m \in Modules |-> "idle"],
      error_log     |-> << >>,
      user_feedback |-> NoFeedback ]

\* no local variable  context  yet ('context' in locals() is false)
NoContext == [context_template EXCEPT !.task_status = "<unbound>"]

NoResult == [returned |-> FALSE, keys |-> {}, code |-> 0, status |-> "",
             task_id |-> 0, current_step |-> None, error |-> "",
             final_video_path |-> NoKey, context |-> NoContext]

\* the session of a browser that has not started a task: current_stage 0 and
\* no completion flag; error: the last script run ended in an exception
NoSession == [current_stage |-> 0, flags |-> {}, error |-> FALSE]

\* what a caller may pass as initial_input: a dict with some of the keys, or
\* a value that is no container (the type hint is not enforced)
InitialInputs ==
    { [isDict |-> TRUE,  keys |-> {"product_image", "character_setting"}],
      [isDict |-> TRUE,  keys |-> {"product_image", "character_setting",
                                   "user_requirements"}],
      [isDict |-> TRUE,  keys |-> {"product_image"}],
      [isDict |-> TRUE,  keys |-> {}],
      [isDict |-> FALSE, keys |-> {}] }

\* what the operator may type when asked for the revision
RawFeedback == { "", "  ", "F", " G " }

\* str.strip() on those texts
strip(s) ==
    CASE s = "  "  -> ""
      [] s = " G " -> "G"
      [] OTHER     -> s

\* error texts
ErrValidation == "input validation failed"   \* line 90
ErrException  == "run raised"                \* line 123
ErrModule     == "X"                         \* the error a module's run returns
ErrTask       == "task raised"               \* line 233

-----------------------------------------------------------------------------
(* The modules: ad_modules.py *)

\* the context keys each validate_input asks for
RequiredKeys(m) ==
    CASE m = "demand_interact"      -> {}
      [] m = "story_builder"        -> {"demand_interact_info"}
      [] m = "scene_designer"       -> {"story_builder_info", "demand_interact_info"}
      [] m = "storyboard_designer"  -> {"scene_designer_info", "story_builder_info"}
      [] m = "grid_image_generator" -> {"storyboard_designer_info", "story_builder_info",
                                        "task_id"}
      [] m = "image_optimizer"      -> {"grid_image_generator_info", "task_id"}
      [] m = "video_generator"      -> {"image_optimizer_info", "scene_designer_info",
                                        "task_id"}

\* key in context
InContext(k, c) ==
    IF k \in SlotKeys THEN c.slots[k].kind # "no key"
    ELSE IF k = "user_feedback" THEN c.user_feedback # NoFeedback
    ELSE k \in {"task_id", "task_status", "current_step", "progress",
                "initial_input", "module_status", "error_log"}

\* validate_input of module m: "true", "false", or "raise" when the membership
\* test is applied to an initial_input that is no container (TypeError)
validate_input(m, c) ==
    IF m = "demand_interact"
    THEN IF ~c.initial_input.isDict THEN "raise"
         ELSE IF {"product_image", "character_setting"} \subseteq c.initial_input.keys
              THEN "true" ELSE "false"
    ELSE IF \A k \in RequiredKeys(m) : InContext(k, c) THEN "true" ELSE "false"

\* how a call of run can end: the AdModule contract lets it return success or
\* failed; a run that raises is what the dispatcher's except clause is for
RunOutcomes == {"success", "failed", "raise"}

\* the context keys run reads by subscript (context["k"]) before it does
\* anything else; a missing one is a KeyError inside run's own try
RunReads(m) ==
    CASE m = "demand_interact"      -> {"initial_input"}
      [] m = "story_builder"        -> {"demand_interact_info"}
      [] m = "scene_designer"       -> {"story_builder_info", "demand_interact_info"}
      [] m = "storyboard_designer"  -> {"scene_designer_info", "story_builder_info"}
      [] m = "grid_image_generator" -> {"storyboard_designer_info", "story_builder_info"}
      [] m = "image_optimizer"      -> {"grid_image_generator_info"}
      [] m = "video_generator"      -> {"image_optimizer_info", "scene_designer_info",
                                        "story_builder_info"}

\* what run of module m can come back with in context c: with a key it reads
\* missing, the KeyError is caught by run itself and returned as a failure
RunOutcomesIn(m, c) ==
    IF \A k \in RunReads(m) : InContext(k, c) THEN RunOutcomes ELSE {"failed"}

\* ad_agent_core.py line 25
API_RETRY_TIMES == 2

\* range(3) of _call_gen_image_api_for_scene
SceneImageTries == 3

\* how the attempts of one generation call go, one entry per attempt the loop
\* may make: the request gives an image, or it fails (an exception, a status
\* other than 200, a reply without an image)
AttemptResults == [1..(API_RETRY_TIMES + 1) -> {"ok", "error"}]

\* no generation call was made
NoCall == [end |-> "none", made |-> 0]

\* _call_gen_image_api_with_retry, _call_super_res_api_with_retry and
\* _call_gen_video_api_with_retry: for retry in range(API_RETRY_TIMES + 1),
\* return on the first attempt that works, raise when the last one fails
RECURSIVE _call_api_with_retry(_, _)
_call_api_with_retry(attempts, retry) ==
    IF attempts[retry + 1] = "ok" THEN [end |-> "returned", made |-> retry + 1]
    ELSE IF retry = API_RETRY_TIMES THEN [end |-> "raised", made |-> retry + 1]
    ELSE _call_api_with_retry(attempts, retry + 1)

\* _call_gen_image_api_for_scene: for _ in range(3), return on the first
\* attempt that gives an image; after the loop a warning is printed and the
\* method returns normally, without an image
RECURSIVE _call_gen_image_api_for_scene(_, _)
_call_gen_image_api_for_scene(attempts, i) ==
    IF i > SceneImageTries THEN [end |-> "gave up", made |-> SceneImageTries]
    ELSE IF attempts[i] = "ok" THEN [end |-> "returned", made |-> i]
    ELSE _call_gen_image_api_for_scene(attempts, i + 1)

\* the modules whose run calls a generation service in a retry loop
Retrying ==
    {"scene_designer", "grid_image_generator", "image_optimizer", "video_generator"}

\* the generation call run of module m makes
GenerationCall(m, attempts) ==
    IF m = "scene_designer" THEN _call_gen_image_api_for_scene(attempts, 1)
    ELSE _call_api_with_retry(attempts, 0)

\* the ways a generation call of run can go in context c: run makes none
\* (the module has none, or run failed before it), or one that ends as the
\* attempts decide
GenerationCalls(m, c) ==
    {NoCall} \cup
    (IF m \in Retrying /\ (\A k \in RunReads(m) : InContext(k, c))
     THEN { GenerationCall(m, attempts) : attempts \in AttemptResults }
     ELSE {})

\* what run comes back with after the call: a call that raised is caught by
\* run's except and returned as a failure; a run of a retrying module that
\* made no call did not get to its end; otherwise anything run can do
RunOutcomesAfter(m, c, call) ==
    IF call.end = "raised" THEN {"failed"}
    ELSE IF call = NoCall /\ m \in Retrying THEN RunOutcomesIn(m, c) \ {"success"}
    ELSE RunOutcomesIn(m, c)

\* every way a generation call can end
AllCalls ==
    {NoCall} \cup { GenerationCall(m, attempts) : m \in Retrying, attempts \in AttemptResults }

-----------------------------------------------------------------------------
(* _dispatch_module *)

\* as _calculate_progress, but with the 0-based index taken for the step number
_calculate_progress_zero_based(m) ==
    LET step_idx    == FlowIndex(m)
        total_steps == Len(schedule_flow)
        thousandths == (step_idx * 100000) \div total_steps
    IN  (thousandths + 5) \div 10

\* as _calculate_progress, but counting the steps still to do
_calculate_progress_remaining(m) ==
    LET step_idx    == FlowIndex(m)
        total_steps == Len(schedule_flow)
        thousandths == ((total_steps - step_idx) * 100000) \div total_steps
    IN  (thousandths + 5) \div 10

\* _calculate_progress: round((step_idx + 1) / total_steps * 100, 2), in hundredths
_calculate_progress(m) ==
    LET step_idx    == FlowIndex(m)
        total_steps == Len(schedule_flow)
        thousandths == ((step_idx + 1) * 100000) \div total_steps
    IN  (thousandths + 5) \div 10

\* as ValidationFailed, but the failure is not written to error_log
ValidationFailed_unlogged(c, m) == [c EXCEPT !.module_status[m] = "failed"]

\* lines 89-95: validation failed
ValidationFailed(c, m) ==
    [c EXCEPT !.module_status[m] = "failed",
              !.error_log = Append(@, [step |-> m, error |-> ErrValidation])]

\* as MarkBusy, but module_status is left as it was
MarkBusy_unmarked(c, m) ==
    [c EXCEPT !.current_step = m,
              !.progress = _calculate_progress(m)]

\* lines 98-102: busy, current_step, progress
MarkBusy(c, m) ==
    [c EXCEPT !.current_step = m,
              !.module_status[m] = "busy",
              !.progress = _calculate_progress(m)]

\* no _dispatch_module call has returned yet
NoModuleResult == [status |-> "", result |-> NoKey, error |-> None]

\* line 95: the module_result of a failed validation
ValidationResult ==
    [status |-> "failed", result |-> EmptyRec, error |-> ErrValidation]

\* the module_result _dispatch_module hands back after run (lines 121, 128)
ModuleResult(m, outcome, rev) ==
    CASE outcome = "success" -> [status |-> "success", result |-> ResultOf(m, rev),
                                 error |-> None]
      [] outcome = "failed"  -> [status |-> "failed", result |-> EmptyRec,
                                 error |-> ErrModule]
      [] outcome = "raise"   -> [status |-> "failed", result |-> EmptyRec,
                                 error |-> ErrException]

\* as AfterRun, but a success leaves module_status as line 100 set it
AfterRun_still_busy(c, m, outcome) ==
    CASE outcome = "success" -> c
      [] outcome = "failed"  ->
            [c EXCEPT !.module_status[m] = "failed",
                      !.error_log = Append(@, [step |-> m, error |-> ErrModule])]
      [] outcome = "raise"   ->
            [c EXCEPT !.module_status[m] = "failed",
                      !.error_log = Append(@, [step |-> m, error |-> ErrException])]

\* lines 107-128: the context after run came back
AfterRun(c, m, outcome) ==
    CASE outcome = "success" -> [c EXCEPT !.module_status[m] = "success"]
      [] outcome = "failed"  ->
            [c EXCEPT !.module_status[m] = "failed",
                      !.error_log = Append(@, [step |-> m, error |-> ErrModule])]
      [] outcome = "raise"   ->
            [c EXCEPT !.module_status[m] = "failed",
                      !.error_log = Append(@, [step |-> m, error |-> ErrException])]

\* line 115 appends to the list object in place: when that object is still the
\* template's list (context_template.copy() is shallow), the template grows too
TemplateAfterRun(tl, sh, m, outcome) ==
    IF outcome = "failed" /\ sh
    THEN Append(tl, [step |-> m, error |-> ErrModule])
    ELSE tl

\* context["error_log"] + [...] (line 126) binds the key to a new list
SharedAfterRun(sh, outcome) == IF outcome = "raise" THEN FALSE ELSE sh

-----------------------------------------------------------------------------
(* run_ad_task *)

\* as _check_pause_node, but every module is taken for a pause node
_check_pause_node_all(m) == TRUE

\* as _check_pause_node, but only the first pause node is known
_check_pause_node_first(m) == m = PAUSE_NODES[1]

_check_pause_node(m) == \E i \in 1..Len(PAUSE_NODES) : PAUSE_NODES[i] = m

\* as IsFailed, but a failed outcome is not noticed
IsFailed_never(mr) == FALSE

\* line 157 / 202: module_result["status"] == "failed"
IsFailed(mr) == mr.status = "failed"

\* as FailTask, but error_log is replaced by the terminating entry alone
FailTask_overwrite(c, m, mr) ==
    [c EXCEPT !.task_status = "failed",
              !.error_log = << [step |-> m, error |-> mr.error] >>]

\* lines 159-162
FailTask(c, m, mr) ==
    [c EXCEPT !.task_status = "failed",
              !.error_log = Append(@, [step |-> m, error |-> mr.error])]

\* as FailTaskRevise, but the result slot of the failed step is emptied
FailTaskRevise_clearing(c) ==
    [c EXCEPT !.task_status = "failed",
              !.slots[InfoKey(c.current_step)] = EmptyRec]

\* line 203
FailTaskRevise(c) == [c EXCEPT !.task_status = "failed"]

\* as MergeResult, but the task is marked paused when the step is a pause node
MergeResult_pausing(c, m, mr) ==
    [c EXCEPT !.slots[InfoKey(m)] = mr.result,
              !.task_status = IF m \in {"story_builder", "storyboard_designer"}
                              THEN "paused" ELSE @]

\* as MergeResult, but the result is not written to the context
MergeResult_dropped(c, m, mr) == c

\* as MergeResult, but a slot that already holds a result is left as it is
MergeResult_once(c, m, mr) ==
    IF InContext(InfoKey(m), c) THEN c
    ELSE [c EXCEPT !.slots[InfoKey(m)] = mr.result]

\* lines 173 and 213
MergeResult(c, m, mr) == [c EXCEPT !.slots[InfoKey(m)] = mr.result]

\* as InjectFeedback, but an empty feedback is written to the context too
InjectFeedback_always(c, user_feedback) == [c EXCEPT !.user_feedback = user_feedback]

\* lines 192-193: the feedback goes into the context only when it is not empty
InjectFeedback(c, user_feedback) ==
    IF user_feedback # "" THEN [c EXCEPT !.user_feedback = user_feedback] ELSE c

\* as ClearFeedback, but the key is left in the context
ClearFeedback_kept(c) == c

\* lines 199-200
ClearFeedback(c) == [c EXCEPT !.user_feedback = NoFeedback]

\* as FailureResult, but without task_id and current_step
FailureResult_short(c, m, mr) ==
    [returned |-> TRUE,
     keys |-> {"code", "status", "error", "context"},
     code |-> 500, status |-> "failed", task_id |-> 0,
     current_step |-> None, error |-> mr.error,
     final_video_path |-> NoKey, context |-> c]

\* lines 163-170 and 204-211
FailureResult(c, m, mr) ==
    [returned |-> TRUE,
     keys |-> {"code", "task_id", "status", "current_step", "error", "context"},
     code |-> 500, status |-> "failed", task_id |-> c.task_id,
     current_step |-> m, error |-> mr.error,
     final_video_path |-> NoKey, context |-> c]

\* as OuterFailure, but the exception is raised again: the call ends without
\* a returned record
OuterFailure_reraised(c) ==
    [returned |-> FALSE, keys |-> {}, code |-> 0, status |-> "",
     task_id |-> 0, current_step |-> None, error |-> ErrTask,
     final_video_path |-> NoKey, context |-> c]

\* lines 229-235: the outermost handler
OuterFailure(c) ==
    [returned |-> TRUE,
     keys |-> {"code", "status", "error", "context"},
     code |-> 500, status |-> "failed", task_id |-> 0,
     current_step |-> None, error |-> ErrTask,
     final_video_path |-> NoKey, context |-> c]

\* lines 221-228
SuccessResult(c, path) ==
    [returned |-> TRUE,
     keys |-> {"code", "task_id", "status", "final_video_path", "task_dir", "context"},
     code |-> 200, status |-> "success", task_id |-> c.task_id,
     current_step |-> None, error |-> "",
     final_video_path |-> path, context |-> c]

\* line 225 reads final_context["video_info"]
FinalSlot == "video_info"

\* a slot value has the key final_video_path: only the record VideoGenerateModule
\* returns has (ad_modules.py 1058-1067)
HasFinalVideoPath(v) == v.kind = "result" /\ v.by = "video_generator"

\* lines 217-220
Finish(c) == [c EXCEPT !.task_status = "finished", !.progress = 10000]

\* lines 217-235: the loop is over
FinalResult(f) ==
    IF HasFinalVideoPath(f.slots[FinalSlot])
    THEN SuccessResult(f, f.slots[FinalSlot])
    ELSE OuterFailure(f)          \* KeyError 'final_video_path'

-----------------------------------------------------------------------------
(* The state machine *)

\* the module the loop stands at
Current == schedule_flow[idx]

NoDecision == [answer |-> "none", feedback |-> ""]

\* a new entry of the dispatch history: the module, which dispatch of the loop
\* it is, the user_feedback the context it is given holds, whether run was
\* invoked, how the call ended ("running", a run outcome, "invalid" for a
\* validation that returned False, "raised" for one that raised), and the
\* length error_log had when the call was made
Call(m, ph, c, ran, outcome) ==
    [module |-> m, phase |-> ph, user_feedback |-> c.user_feedback,
     ran |-> ran, outcome |-> outcome, log_len |-> Len(c.error_log)]

\* the last entry of the dispatch history gets its outcome
Close(log, outcome) == [log EXCEPT ![Len(log)].outcome = outcome]

Init ==
    /\ pc = "idle"
    /\ idx = 1
    /\ phase = "first"
    /\ context = NoContext
    /\ disk = NoContext
    /\ result = NoResult
    /\ template_error_log = << >>
    /\ shared_log = FALSE
    /\ tasks = 0
    /\ dispatches = << >>
    /\ decisions = [m \in Modules |-> NoDecision]
    /\ module_result = NoModuleResult
    /\ gen_call = NoCall
    /\ session_state = NoSession

\* as init_ad_task, but the first module of the flow is marked busy at once
init_ad_task_started(task_id, initial_input, tl) ==
    [context_template EXCEPT !.task_id = task_id,
                             !.initial_input = initial_input,
                             !.task_status = "processing",
                             !.error_log = tl,
                             !.module_status[schedule_flow[1]] = "busy"]

\* init_ad_task: a shallow copy of the template, so error_log is the
\* template's own list; saved at once
init_ad_task(task_id, initial_input, tl) ==
    [context_template EXCEPT !.task_id = task_id,
                             !.initial_input = initial_input,
                             !.task_status = "processing",
                             !.error_log = tl]

\* run_ad_task is called (lines 146-153): the task is initialised and the
\* loop stands before its first dispatch
RunAdTask(initial_input) ==
    /\ pc \in {"idle", "done"}
    /\ UNCHANGED session_state
    /\ tasks < MaxTasks
    /\ tasks' = tasks + 1
    /\ context' = init_ad_task(tasks + 1, initial_input, template_error_log)
    /\ disk' = context'
    /\ shared_log' = TRUE
    /\ pc' = "dispatch"
    /\ idx' = 1
    /\ phase' = "first"
    /\ result' = NoResult
    /\ dispatches' = << >>
    /\ decisions' = [m \in Modules |-> NoDecision]
    /\ module_result' = NoModuleResult
    /\ gen_call' = NoCall
    /\ UNCHANGED template_error_log

\* run_ad_task is called and init_ad_task raises (the task directory or the
\* first snapshot cannot be written): the outermost handler answers, and no
\* context was bound
InitFault ==
    /\ pc \in {"idle", "done"}
    /\ UNCHANGED session_state
    /\ tasks < MaxTasks
    /\ tasks' = tasks + 1
    /\ context' = NoContext
    /\ disk' = NoContext
    /\ shared_log' = FALSE
    /\ pc' = "done"
    /\ idx' = 1
    /\ phase' = "first"
    /\ result' = OuterFailure(NoContext)
    /\ dispatches' = << >>
    /\ decisions' = [m \in Modules |-> NoDecision]
    /\ module_result' = NoModuleResult
    /\ gen_call' = NoCall
    /\ UNCHANGED template_error_log

\* run_ad_task returns r with the context c, last saved as d
Return(r, c, d) ==
    /\ pc' = "done"
    /\ result' = r
    /\ context' = c
    /\ disk' = d
    /\ UNCHANGED <<idx, phase>>

\* the loop goes on after a step is settled (context c, last saved as d): to
\* the next module, or past the loop to lines 217-235
Continue(c, d) ==
    IF idx < Len(schedule_flow)
    THEN /\ pc' = "dispatch"
         /\ idx' = idx + 1
         /\ phase' = "first"
         /\ context' = c
         /\ disk' = d
         /\ UNCHANGED result
    ELSE Return(FinalResult(Finish(c)), Finish(c), Finish(c))

\* _dispatch_module is entered and validate_input raises: nothing in the
\* dispatcher catches it (the try starts at line 105), so it reaches the
\* outermost handler of run_ad_task
ValidateRaise ==
    /\ pc = "dispatch"
    /\ UNCHANGED session_state
    /\ UNCHANGED gen_call
    /\ validate_input(Current, context) = "raise"
    /\ dispatches' = Append(dispatches, Call(Current, phase, context, FALSE, "raised"))
    /\ Return(OuterFailure(context), context, disk)
    /\ UNCHANGED <<template_error_log, shared_log, tasks, decisions, module_result>>

\* validate_input returns False: lines 89-95, then the failure path of the
\* scheduler (157-170 on a first dispatch, 199-211 on a revise)
ValidateFalse ==
    /\ pc = "dispatch"
    /\ UNCHANGED session_state
    /\ UNCHANGED gen_call
    /\ validate_input(Current, context) = "false"
    /\ LET m  == Current
           mr == ValidationResult
           c1 == ValidationFailed(context, m)
           c2 == IF phase = "first" THEN FailTask(c1, m, mr)
                 ELSE FailTaskRevise(ClearFeedback(c1))
       IN  /\ dispatches' = Append(dispatches, Call(m, phase, context, FALSE, "invalid"))
           /\ module_result' = mr
           /\ IF IsFailed(mr)
              THEN Return(FailureResult(c2, m, mr), c2, c2)
              ELSE Continue(MergeResult(c1, m, mr), MergeResult(c1, m, mr))
    /\ shared_log' = FALSE
    /\ UNCHANGED <<template_error_log, tasks, decisions>>

\* validate_input returns True: lines 98-102, then run is called
ValidateOk ==
    /\ pc = "dispatch"
    /\ UNCHANGED session_state
    /\ UNCHANGED gen_call
    /\ validate_input(Current, context) = "true"
    /\ context' = MarkBusy(context, Current)
    /\ disk' = context'
    /\ pc' = "run"
    /\ dispatches' = Append(dispatches, Call(Current, phase, context, TRUE, "running"))
    /\ UNCHANGED <<idx, phase, result, template_error_log, shared_log, tasks,
                   decisions, module_result>>

\* run comes back (lines 107-128) and the scheduler goes on from line 157 on a
\* first dispatch, from line 199 on a revise
RunReturns(call, outcome) ==
    /\ pc = "run"
    /\ UNCHANGED session_state
    /\ call \in GenerationCalls(Current, context)
    /\ outcome \in RunOutcomesAfter(Current, context, call)
    /\ gen_call' = call
    /\ LET m   == Current
           rev == IF phase = "first" THEN 1 ELSE 2
           mr  == ModuleResult(m, outcome, rev)
           c1  == AfterRun(context, m, outcome)
           c2  == IF phase = "first" THEN c1 ELSE ClearFeedback(c1)
           cf  == IF phase = "first" THEN FailTask(c2, m, mr) ELSE FailTaskRevise(c2)
           cm  == MergeResult(c2, m, mr)
       IN  /\ dispatches' = Close(dispatches, outcome)
           /\ module_result' = mr
           /\ template_error_log' =
                  TemplateAfterRun(template_error_log, shared_log, m, outcome)
           /\ IF IsFailed(mr)
              THEN /\ Return(FailureResult(cf, m, mr), cf, cf)
                   /\ shared_log' = IF phase = "first" THEN FALSE
                                    ELSE SharedAfterRun(shared_log, outcome)
              ELSE /\ shared_log' = SharedAfterRun(shared_log, outcome)
                   /\ IF phase = "first" /\ _check_pause_node(m)
                      THEN /\ pc' = "confirm"
                           /\ context' = cm
                           /\ disk' = cm
                           /\ UNCHANGED <<idx, phase, result>>
                      ELSE Continue(cm, cm)
    /\ UNCHANGED <<tasks, decisions>>

\* user_confirm returns True (line 183): on to the next step
Confirm ==
    /\ pc = "confirm"
    /\ UNCHANGED session_state
    /\ UNCHANGED gen_call
    /\ decisions' = [decisions EXCEPT ![Current] =
                        [answer |-> "confirm", feedback |-> ""]]
    /\ Continue(context, disk)
    /\ UNCHANGED <<template_error_log, shared_log, tasks, dispatches, module_result>>

\* user_confirm returns False and the operator types the revision (lines
\* 186-196): the same module is about to be dispatched again
Revise(raw) ==
    /\ pc = "confirm"
    /\ UNCHANGED session_state
    /\ UNCHANGED gen_call
    /\ LET user_feedback == strip(raw)
       IN  /\ decisions' = [decisions EXCEPT ![Current] =
                               [answer |-> "revise", feedback |-> user_feedback]]
           /\ context' = InjectFeedback(context, user_feedback)
    /\ pc' = "dispatch"
    /\ phase' = "revise"
    /\ UNCHANGED <<idx, disk, result, template_error_log, shared_log, tasks,
                   dispatches, module_result>>

Next ==
    \/ \E initial_input \in InitialInputs : RunAdTask(initial_input)
    \/ InitFault
    \/ ValidateRaise
    \/ ValidateFalse
    \/ ValidateOk
    \/ \E call \in AllCalls, outcome \in RunOutcomes : RunReturns(call, outcome)
    \/ Confirm
    \/ \E raw \in RawFeedback : Revise(raw)

Spec == Init /\ [][Next]_vars

-----------------------------------------------------------------------------
(* _dispatch_module on its own *)

(***************************************************************************)
(* _dispatch_module is also called directly (run_module_step of            *)
(* streamlit_app.py), with whatever context the caller holds.  Here one    *)
(* call is made with a module and a context drawn from the contexts below, *)
(* and the state is looked at when the call has returned.                  *)
(***************************************************************************)

\* an error_log entry left by an earlier attempt
EarlierEntry == [step |-> "demand_interact", error |-> ErrModule]

\* the contexts a call is made with: a task context in which any set of
\* modules has succeeded and left its result, with or without user_feedback,
\* with an empty error_log or one earlier entry
DispatchContexts ==
    { [init_ad_task(1, initial_input, log) EXCEPT
          !.slots = [k \in SlotKeys |->
                        IF k \in TemplateSlots THEN EmptyRec
                        ELSE IF \E m \in done : InfoKey(m) = k
                             THEN ResultOf(CHOOSE m \in done : InfoKey(m) = k, 1)
                             ELSE NoKey],
          !.module_status = [m \in Modules |->
                                IF m \in done THEN "success" ELSE "idle"],
          !.user_feedback = fb] :
        initial_input \in InitialInputs,
        log \in {<< >>, <<EarlierEntry>>},
        done \in SUBSET Modules,
        fb \in {NoFeedback, "F"} }

DispatchInit ==
    /\ pc = "d_call"
    /\ idx \in 1..Len(schedule_flow)
    /\ phase = "first"
    /\ context \in DispatchContexts
    /\ disk = context
    /\ result = NoResult
    /\ shared_log \in BOOLEAN
    /\ template_error_log = IF shared_log THEN context.error_log ELSE << >>
    /\ tasks = 1
    /\ dispatches = << >>
    /\ decisions = [m \in Modules |-> NoDecision]
    /\ module_result = NoModuleResult
    /\ gen_call = NoCall
    /\ session_state = NoSession

\* validate_input raises: the exception leaves _dispatch_module (line 89 is
\* outside the try of line 105)
DispatchRaises ==
    /\ pc = "d_call"
    /\ UNCHANGED session_state
    /\ UNCHANGED gen_call
    /\ validate_input(Current, context) = "raise"
    /\ pc' = "d_raised"
    /\ dispatches' = Append(dispatches, Call(Current, phase, context, FALSE, "raised"))
    /\ UNCHANGED <<idx, phase, context, disk, result, template_error_log,
                   shared_log, tasks, decisions, module_result>>

\* validate_input returns False: lines 89-95
DispatchInvalid ==
    /\ pc = "d_call"
    /\ UNCHANGED session_state
    /\ UNCHANGED gen_call
    /\ validate_input(Current, context) = "false"
    /\ context' = ValidationFailed(context, Current)
    /\ disk' = context'
    /\ module_result' = ValidationResult
    /\ shared_log' = FALSE
    /\ pc' = "d_returned"
    /\ dispatches' = Append(dispatches, Call(Current, phase, context, FALSE, "invalid"))
    /\ UNCHANGED <<idx, phase, result, template_error_log, tasks, decisions>>

\* validate_input returns True: lines 98-102, then run is called
DispatchBusy ==
    /\ pc = "d_call"
    /\ UNCHANGED session_state
    /\ UNCHANGED gen_call
    /\ validate_input(Current, context) = "true"
    /\ context' = MarkBusy(context, Current)
    /\ disk' = context'
    /\ pc' = "d_run"
    /\ dispatches' = Append(dispatches, Call(Current, phase, context, TRUE, "running"))
    /\ UNCHANGED <<idx, phase, result, template_error_log, shared_log, tasks,
                   decisions, module_result>>

\* run comes back: lines 107-128
DispatchRunReturns(call, outcome) ==
    /\ pc = "d_run"
    /\ UNCHANGED session_state
    /\ call \in GenerationCalls(Current, context)
    /\ outcome \in RunOutcomesAfter(Current, context, call)
    /\ gen_call' = call
    /\ context' = AfterRun(context, Current, outcome)
    /\ disk' = context'
    /\ module_result' = ModuleResult(Current, outcome, 1)
    /\ template_error_log' =
           TemplateAfterRun(template_error_log, shared_log, Current, outcome)
    /\ shared_log' = SharedAfterRun(shared_log, outcome)
    /\ pc' = "d_returned"
    /\ dispatches' = Close(dispatches, outcome)
    /\ UNCHANGED <<idx, phase, result, tasks, decisions>>

DispatchNext ==
    \/ DispatchRaises
    \/ DispatchInvalid
    \/ DispatchBusy
    \/ \E call \in AllCalls, outcome \in RunOutcomes : DispatchRunReturns(call, outcome)

DispatchSpec == DispatchInit /\ [][DispatchNext]_vars

-----------------------------------------------------------------------------
(* streamlit_app.py *)

(***************************************************************************)
(* The browser front end keeps the control plane, the task context and the *)
(* stage in st.session_state and runs its script from the top after every  *)
(* widget event and every st.rerun().  pc is "a_rerun" when a run of the   *)
(* script is due, "a_run" while run_module_step waits for a module's run,   *)
(* and "a_wait" when the script has ended and the page waits for the user. *)
(***************************************************************************)

\* the most dispatches followed in one task of the front end
MaxDispatches == 7

\* the longest error_log with which the front end's dispatches are still followed
MaxErrors == 2

\* stages whose module is dispatched by the script itself, with the flag that
\* tells the script the stage is done, and stages dispatched by a button
AutoStages == {1, 3, 5, 6, 7}
ManualStages == {2, 4}

StageFlag(stage) ==
    CASE stage = 1 -> "demand_done"
      [] stage = 3 -> "scene_done"
      [] stage = 5 -> "grid_done"
      [] stage = 6 -> "opt_done"
      [] stage = 7 -> "video_done"

\* line 101 and lines 111-115
dummy_input == [isDict |-> TRUE, keys |-> {"product_image", "character_setting"}]
uploaded_input ==
    [isDict |-> TRUE, keys |-> {"product_image", "character_setting", "user_requirements"}]

\* what the text box of a manual stage may hold when its button is pressed
BoxFeedback == {"", "F"}

\* if info: a slot that holds a result with content
Truthy(c, k) == c.slots[k].kind = "result"

\* which run of module m in this task the one that just came back is (a
\* result is told from that of an earlier run by it), 2 for any later one
TimesRun(m) ==
    IF Cardinality({ i \in 1..Len(dispatches) :
                        dispatches[i].module = m /\ dispatches[i].ran }) > 1
    THEN 2 ELSE 1

AppInit ==
    /\ pc = "a_wait"
    /\ idx = 1
    /\ phase = "first"
    /\ context = NoContext
    /\ disk = NoContext
    /\ result = NoResult
    /\ template_error_log = << >>
    /\ shared_log = FALSE
    /\ tasks = 0
    /\ dispatches = << >>
    /\ decisions = [m \in Modules |-> NoDecision]
    /\ module_result = NoModuleResult
    /\ gen_call = NoCall
    /\ session_state = NoSession

\* lines 92-118: the start button with both images uploaded
AppStart ==
    /\ pc = "a_wait"
    /\ session_state.current_stage = 0
    /\ tasks < MaxTasks
    /\ tasks' = tasks + 1
    /\ disk' = init_ad_task(tasks + 1, dummy_input, template_error_log)
    /\ context' = [disk' EXCEPT !.initial_input = uploaded_input]
    /\ shared_log' = TRUE
    /\ dispatches' = << >>
    /\ module_result' = NoModuleResult
    /\ gen_call' = NoCall
    /\ session_state' = [session_state EXCEPT !.current_stage = 1, !.error = FALSE]
    /\ idx' = 1
    /\ pc' = "a_rerun"
    /\ decisions' = [m \in Modules |-> NoDecision]
    /\ UNCHANGED <<phase, result, template_error_log>>

\* lines 67-70: the reset button
AppReset ==
    /\ pc = "a_wait"
    /\ context' = NoContext
    /\ session_state' = [session_state EXCEPT !.current_stage = 0, !.error = FALSE]
    /\ idx' = 1
    /\ pc' = "a_rerun"
    /\ UNCHANGED <<phase, disk, result, template_error_log, shared_log, tasks,
                   dispatches, decisions, module_result, gen_call>>

\* any other widget event (a text typed into a box): the script runs again
AppWidgetEvent ==
    /\ pc = "a_wait"
    /\ pc' = "a_rerun"
    /\ UNCHANGED <<idx, phase, context, disk, result, template_error_log, shared_log,
                   tasks, dispatches, decisions, module_result, gen_call, session_state>>

\* a run of the script that dispatches nothing: stage 0, a manual stage, or
\* an automatic stage whose flag is in the session; at stage 1 the script
\* then subscripts the context with demand_interact_info (line 151)
AppRender ==
    /\ pc = "a_rerun"
    /\ LET stage == session_state.current_stage
       IN  /\ stage \in AutoStages => StageFlag(stage) \in session_state.flags
           /\ session_state' =
                  [session_state EXCEPT !.error =
                      stage = 1 /\ ~InContext("demand_interact_info", context)]
    /\ pc' = "a_wait"
    /\ UNCHANGED <<idx, phase, context, disk, result, template_error_log, shared_log,
                   tasks, dispatches, decisions, module_result, gen_call>>

\* run_module_step up to the call of run (lines 121-130 and 88-106), on
\* context c: validation fails and the script goes on to its end, or the
\* module is marked busy and run is called
AppDispatch(c) ==
    /\ Len(dispatches) < MaxDispatches
    /\ Len(c.error_log) < MaxErrors
    /\ LET m == Current
           v == validate_input(m, c)
       IN  /\ context' = (CASE v = "true"  -> MarkBusy(c, m)
                            [] v = "false" -> ValidationFailed(c, m)
                            [] OTHER       -> c)
           /\ disk' = IF v = "raise" THEN disk ELSE context'
           /\ pc' = IF v = "true" THEN "a_run" ELSE "a_wait"
           /\ dispatches' = Append(dispatches,
                  Call(m, phase, c, v = "true",
                       CASE v = "true" -> "running" [] v = "false" -> "invalid"
                         [] OTHER -> "raised"))
           /\ module_result' = IF v = "false" THEN ValidationResult ELSE module_result
           /\ shared_log' = IF v = "false" THEN FALSE ELSE shared_log
           /\ session_state' = [session_state EXCEPT !.error = (v = "raise")]
    /\ UNCHANGED <<idx, phase, result, template_error_log, tasks, gen_call>>

\* a run of the script at an automatic stage whose flag is not in the
\* session (lines 144-145, 205-206, 265-266, 290-291, 310-311)
AppAutoDispatch ==
    /\ pc = "a_rerun"
    /\ session_state.current_stage \in AutoStages
    /\ StageFlag(session_state.current_stage) \notin session_state.flags
    /\ AppDispatch(context)
    /\ UNCHANGED decisions

\* the generate button of a manual stage (lines 172-178, 236-240): the text
\* of the box, when there is any, is written to the context first
AppRegenerate(feedback) ==
    /\ pc = "a_wait"
    /\ session_state.current_stage \in ManualStages
    /\ AppDispatch(IF feedback # "" THEN [context EXCEPT !.user_feedback = feedback]
                   ELSE context)
    /\ decisions' = [decisions EXCEPT ![Current] =
                        [answer |-> "regenerate", feedback |-> feedback]]

\* run comes back inside run_module_step (lines 107-128 and 131-138) and the
\* stage's code goes on: a success is merged and saved, then the flag is set
\* (automatic stage) or user_feedback deleted (manual stage), and st.rerun()
\* is called; a failure is shown and the script runs to its end
AppRunReturns(call, outcome) ==
    /\ pc = "a_run"
    /\ call \in GenerationCalls(Current, context)
    /\ outcome \in RunOutcomesAfter(Current, context, call)
    /\ gen_call' = call
    /\ LET m     == Current
           stage == session_state.current_stage
           mr    == ModuleResult(m, outcome, TimesRun(m))
           c1    == AfterRun(context, m, outcome)
           cm    == MergeResult(c1, m, mr)
       IN  /\ module_result' = mr
           /\ dispatches' = Close(dispatches, outcome)
           /\ template_error_log' =
                  TemplateAfterRun(template_error_log, shared_log, m, outcome)
           /\ shared_log' = SharedAfterRun(shared_log, outcome)
           /\ IF mr.status = "success"
              THEN /\ disk' = cm
                   /\ context' = IF stage \in ManualStages THEN ClearFeedback(cm) ELSE cm
                   /\ session_state' =
                          IF stage \in AutoStages
                          THEN [session_state EXCEPT !.flags = @ \cup {StageFlag(stage)}]
                          ELSE session_state
                   /\ pc' = "a_rerun"
              ELSE /\ disk' = c1
                   /\ context' = c1
                   /\ pc' = "a_wait"
                   /\ UNCHANGED session_state
    /\ UNCHANGED <<idx, phase, result, tasks, decisions>>

\* the button that leaves a stage: at an automatic stage it is drawn when the
\* flag is set and the result is there (lines 150-158, 211-222, 271-284,
\* 296-304) and the flag is deleted; at a manual stage it goes on when the
\* module's result is there (lines 194-197, 254-257)
AppNext ==
    /\ pc = "a_wait"
    /\ LET stage == session_state.current_stage
       IN  /\ stage \in 1..6
           /\ IF stage \in AutoStages
              THEN /\ StageFlag(stage) \in session_state.flags
                   /\ IF stage = 1 THEN InContext(InfoKey(Current), context)
                      ELSE Truthy(context, InfoKey(Current))
              ELSE Truthy(context, InfoKey(Current))
           /\ session_state' =
                  [session_state EXCEPT
                      !.current_stage = stage + 1,
                      !.flags = IF stage \in AutoStages THEN @ \ {StageFlag(stage)} ELSE @,
                      !.error = FALSE]
           /\ idx' = stage + 1
    /\ pc' = "a_rerun"
    /\ UNCHANGED <<phase, context, disk, result, template_error_log, shared_log,
                   tasks, dispatches, decisions, module_result, gen_call>>

AppStep ==
    \/ AppStart
    \/ AppReset
    \/ AppWidgetEvent
    \/ AppRender
    \/ AppAutoDispatch
    \/ \E feedback \in BoxFeedback : AppRegenerate(feedback)
    \/ \E call \in AllCalls, outcome \in RunOutcomes : AppRunReturns(call, outcome)
    \/ AppNext

AppSpec == AppInit /\ [][AppStep]_vars

-----------------------------------------------------------------------------
(* Claims *)

Last(log) == log[Len(log)]

\* a dispatch that ended in a failed outcome
FailedCall(e) == e.outcome \in {"failed", "raise", "invalid"}

ValidInput(c) ==
    /\ c.initial_input.isDict
    /\ {"product_image", "character_setting"} \subseteq c.initial_input.keys

SixFields == {"code", "task_id", "status", "current_step", "error", "context"}

\* the order of the steps as the specification states it, and a step's place in it
StatedOrder ==
    << "demand_interact", "story_builder", "scene_designer",
       "storyboard_designer", "grid_image_generator", "image_optimizer",
       "video_generator" >>

Place(m) == CHOOSE i \in 1..Len(StatedOrder) : StatedOrder[i] = m

StatedPauseNodes == {"story_builder", "storyboard_designer"}

\* every module ran once with success and the operator confirmed twice
AllSucceededConfirmed ==
    /\ ValidInput(context)
    /\ Len(dispatches) = Len(StatedOrder)
    /\ \A i \in 1..Len(dispatches) : dispatches[i].outcome = "success"
    /\ \A p \in StatedPauseNodes : decisions[p].answer = "confirm"

\* C1: a task whose seven modules all succeed and whose operator confirms at
\* both pause nodes returns code 200, status success, a context with progress
\* 100.0 and the final artifact path of the last step's output.
C1_SuccessfulTaskReturns200 ==
    (pc = "done" /\ AllSucceededConfirmed) =>
        /\ result.returned
        /\ result.code = 200
        /\ result.status = "success"
        /\ result.context.progress = 10000
        /\ "final_video_path" \in result.keys
        /\ result.final_video_path = ResultOf("video_generator", 1)

\* C2: a run that created a context ends with task_status finished or failed,
\* and the returned record agrees: success/200 exactly when finished,
\* failed/500 exactly when failed.
C2_StatusAgreesWithResult ==
    (pc = "done" /\ context # NoContext) =>
        /\ context.task_status \in {"finished", "failed"}
        /\ (result.status = "success" /\ result.code = 200)
               <=> context.task_status = "finished"
        /\ (result.status = "failed" /\ result.code = 500)
               <=> context.task_status = "failed"

\* C3: when scene_designer's run returns failed with error X after the earlier
\* steps succeeded, run_ad_task returns code 500, current_step scene_designer
\* and error X, and every later step is still idle in the returned context.
C3_SceneDesignerFailure ==
    (dispatches # << >> /\ Last(dispatches).module = "scene_designer"
                        /\ Last(dispatches).outcome = "failed") =>
        /\ pc = "done"
        /\ result.returned
        /\ result.code = 500
        /\ result.status = "failed"
        /\ result.current_step = "scene_designer"
        /\ result.error = ErrModule
        /\ {"code", "current_step", "error", "context"} \subseteq result.keys
        /\ \A m \in Modules :
              Place(m) > Place("scene_designer") =>
                  /\ result.context.module_status[m] = "idle"
                  /\ \A i \in 1..Len(dispatches) : dispatches[i].module # m
        /\ \A m \in Modules :
              Place(m) < Place("scene_designer") =>
                  result.context.module_status[m] = "success"

C3_Witness ==
    /\ pc = "done"
    /\ dispatches # << >>
    /\ Last(dispatches).module = "scene_designer"
    /\ Last(dispatches).outcome = "failed"
    /\ decisions["story_builder"].answer = "revise"

\* C4: whatever the modules do (return success, return failed, raise from
\* validate_input or from run) and whatever the bookkeeping after the loop
\* does, a call of run_ad_task ends by returning a record with code 200 or 500
\* and status success or failed.
C4_AlwaysStructuredResult ==
    pc = "done" =>
        /\ result.returned
        /\ {"code", "status"} \subseteq result.keys
        /\ \/ result.code = 200 /\ result.status = "success"
           \/ result.code = 500 /\ result.status = "failed"

C4_Witness ==
    /\ pc = "done"
    /\ dispatches # << >>
    /\ Last(dispatches).outcome = "raised"
    /\ result.error = ErrTask

\* C5: every failure result, whichever path produced it, carries code 500,
\* task_id, status failed, current_step, error and context.
C5_EveryFailureHasSixFields ==
    (pc = "done" /\ result.status = "failed") =>
        /\ result.code = 500
        /\ SixFields \subseteq result.keys

\* C5 as amended: a failure result returned for a failed dispatch (the first
\* dispatch of a step or the re-dispatch after a revise) carries the six
\* fields, with current_step the failed module and task_id the task's; the
\* failure result of the outermost handler carries code 500, status failed,
\* error and context, and neither task_id nor current_step.
C5_FailureFieldsByPath ==
    (pc = "done" /\ result.status = "failed") =>
        /\ result.code = 500
        /\ IF dispatches # << >> /\ FailedCall(Last(dispatches))
           THEN /\ result.keys = SixFields
                /\ result.current_step = Last(dispatches).module
                /\ result.task_id = context.task_id
                /\ result.context = context
           ELSE /\ result.keys = {"code", "status", "error", "context"}
                /\ result.error = ErrTask
                /\ result.context = context

C5_Witness ==
    /\ pc = "done"
    /\ result.status = "failed"
    /\ dispatches # << >>
    /\ Last(dispatches).phase = "revise"
    /\ FailedCall(Last(dispatches))
    /\ result.keys = SixFields

\* C6: modules are dispatched in the stated order, none skipped: the dispatch
\* history walks the order one place at a time (staying in place only for a
\* revise), and whenever step k is being dispatched every step before k is
\* success and every step after k is idle.
C6_FixedOrder ==
    /\ \A i \in 1..Len(dispatches) :
          /\ i = 1 => Place(dispatches[i].module) = 1 /\ dispatches[i].phase = "first"
          /\ i > 1 =>
                IF dispatches[i].phase = "revise"
                THEN /\ dispatches[i].module = dispatches[i-1].module
                     /\ dispatches[i-1].phase = "first"
                ELSE Place(dispatches[i].module) = Place(dispatches[i-1].module) + 1
    /\ pc \in {"dispatch", "run"} =>
          \A m \in Modules :
              /\ Place(m) < Place(Current) => context.module_status[m] = "success"
              /\ Place(m) > Place(Current) => context.module_status[m] = "idle"

C6_Witness ==
    /\ pc = "run"
    /\ Current = "video_generator"
    /\ Len(dispatches) = 9

\* C7: once a dispatch has ended in a failed outcome, nothing is dispatched
\* any more in that task: the failed dispatch is the last one and the task
\* has returned its failure result.
C7_NoDispatchAfterFailure ==
    \A i \in 1..Len(dispatches) :
        FailedCall(dispatches[i]) =>
            /\ i = Len(dispatches)
            /\ pc = "done"
            /\ result.returned
            /\ result.status = "failed"

C7_Witness ==
    /\ pc = "done"
    /\ Len(dispatches) = 6
    /\ Last(dispatches).module = "storyboard_designer"
    /\ Last(dispatches).phase = "revise"
    /\ Last(dispatches).outcome = "raise"

\* C8: the operator is asked to confirm or revise after a successful dispatch
\* of story_builder and of storyboard_designer and after no other step, and
\* no step after a pause node is dispatched before the answer is in.
C8_DecisionAtPauseNodes ==
    /\ pc = "confirm" =>
          /\ Current \in StatedPauseNodes
          /\ Last(dispatches).module = Current
          /\ Last(dispatches).outcome = "success"
          /\ decisions[Current].answer = "none"
    /\ \A m \in Modules : decisions[m].answer # "none" => m \in StatedPauseNodes
    /\ \A i \in 1..Len(dispatches) : \A p \in StatedPauseNodes :
          Place(p) < Place(dispatches[i].module) => decisions[p].answer # "none"

C8_Witness ==
    /\ pc = "dispatch"
    /\ Current = "grid_image_generator"
    /\ decisions["storyboard_designer"].answer = "confirm"
    /\ decisions["story_builder"].answer = "revise"

\* C9: in a re-dispatch after a revise with non-empty feedback the context
\* given to run holds user_feedback; the key is not in the context before the
\* revise decision nor once the re-dispatch has returned, whatever its outcome.
C9_FeedbackOnlyDuringRedispatch ==
    /\ \A i \in 1..Len(dispatches) :
          LET e == dispatches[i] IN
          (e.phase = "revise" /\ decisions[e.module].feedback # "") =>
              e.user_feedback = decisions[e.module].feedback
    /\ (pc = "run" /\ phase = "revise" /\ decisions[Current].feedback # "") =>
          context.user_feedback = decisions[Current].feedback
    /\ context.user_feedback # NoFeedback =>
          /\ phase = "revise"
          /\ pc \in {"dispatch", "run"}
          /\ decisions[Current].answer = "revise"

C9_Witness ==
    /\ pc = "done"
    /\ dispatches # << >>
    /\ Last(dispatches).phase = "revise"
    /\ Last(dispatches).ran
    /\ Last(dispatches).outcome = "failed"
    /\ Last(dispatches).user_feedback = "G"
    /\ context.user_feedback = NoFeedback

\* the dispatches of story_builder in the history
StoryCalls == { i \in 1..Len(dispatches) : dispatches[i].module = "story_builder" }

\* C10: a revise at the story_builder pause node with feedback F (a non-empty
\* text) causes exactly one more dispatch of story_builder, which sees
\* user_feedback = F, and no later dispatch sees F: not scene_designer, not
\* any step after it, not a revise of storyboard_designer made with another
\* feedback.
C10_StoryFeedbackSeenOnce ==
    LET F == decisions["story_builder"].feedback IN
    (decisions["story_builder"].answer = "revise" /\ F # "") =>
        /\ StoryCalls = IF pc = "dispatch" /\ Current = "story_builder"
                        THEN {2} ELSE {2, 3}
        /\ Len(dispatches) >= 3 =>
              /\ dispatches[3].phase = "revise"
              /\ dispatches[3].user_feedback = F
        /\ \A i \in 1..Len(dispatches) :
              (i # 3 /\ dispatches[i].user_feedback = F) =>
                  /\ dispatches[i].module = "storyboard_designer"
                  /\ dispatches[i].phase = "revise"
                  /\ decisions["storyboard_designer"].feedback = F

C10_Witness ==
    /\ Len(dispatches) >= 7
    /\ decisions["story_builder"] = [answer |-> "revise", feedback |-> "F"]
    /\ decisions["storyboard_designer"] = [answer |-> "revise", feedback |-> "G"]
    /\ dispatches[3].user_feedback = "F"
    /\ dispatches[4].user_feedback = NoFeedback
    /\ dispatches[6].user_feedback = "G"
    /\ dispatches[7].user_feedback = NoFeedback

\* what the scheduler does to the context when a dispatch failed, as the
\* specification states it (2b): task_status failed, the terminating error
\* appended after the dispatcher's own entry, the result saved
TerminatedAsStated ==
    LET e == Last(dispatches) IN
    /\ context.task_status = "failed"
    /\ Len(context.error_log) = e.log_len + 2
    /\ context.error_log[Len(context.error_log)] =
           [step |-> e.module, error |-> result.error]
    /\ disk = context
    /\ result.keys = SixFields

\* C11: a failed re-dispatch after a revise fails the task exactly as a failed
\* first dispatch does: task_status failed, the terminating error appended to
\* error_log by the scheduler, the context saved, the same result fields.
C11_ReviseFailsLikeFirst ==
    (pc = "done" /\ dispatches # << >> /\ FailedCall(Last(dispatches))) =>
        TerminatedAsStated

\* s is a prefix of t
IsPrefix(s, t) == Len(s) <= Len(t) /\ SubSeq(t, 1, Len(s)) = s

\* C12: for every module and every context in which its validate_input
\* returns False, _dispatch_module returns without invoking run, the outcome
\* is failed, module_status[module] is failed, error_log is the old log plus
\* one entry naming the module, and that context is on disk.
C12_InvalidInputDispatch ==
    [][(pc = "d_call" /\ validate_input(Current, context) = "false") =>
          /\ pc' = "d_returned"
          /\ ~Last(dispatches').ran
          /\ module_result'.status = "failed"
          /\ {"status", "result", "error"} = DOMAIN module_result'
          /\ context'.module_status[Current] = "failed"
          /\ Len(context'.error_log) = Len(context.error_log) + 1
          /\ IsPrefix(context.error_log, context'.error_log)
          /\ Last(context'.error_log).step = Current
          /\ disk' = context']_vars

C12_Witness ==
    /\ pc = "d_returned"
    /\ Last(dispatches).outcome = "invalid"
    /\ Current = "video_generator"
    /\ context.slots["image_optimizer_info"].kind = "result"
    /\ context.slots["scene_designer_info"].kind = "no key"
    /\ Len(context.error_log) = 2

\* C13: a run that raises and a run that returns status failed leave the same
\* bookkeeping: the outcome has the keys status (failed), result and error,
\* module_status[module] went from busy to failed, and the task's error_log is
\* exactly one entry longer than before the attempt.
C13_RaiseLikeReturnedFailure ==
    (pc = "done" /\ dispatches # << >>
                 /\ Last(dispatches).outcome \in {"failed", "raise"}) =>
        /\ DOMAIN module_result = {"status", "result", "error"}
        /\ module_result.status = "failed"
        /\ context.module_status[Last(dispatches).module] = "failed"
        /\ Len(context.error_log) = Last(dispatches).log_len + 1

\* the failed attempts of the task: validation failures, runs that returned
\* failed, runs that raised
FailedAttempts == { i \in 1..Len(dispatches) : FailedCall(dispatches[i]) }

\* C14: every failed module attempt adds exactly one entry to error_log, so
\* at the end of a task the length of error_log is the number of failed
\* attempts.
C14_OneEntryPerFailedAttempt ==
    (pc = "done" /\ context # NoContext) =>
        Len(context.error_log) = Cardinality(FailedAttempts)

\* error_log log has an entry for step m
Logged(log, m) == \E i \in 1..Len(log) : log[i].step = m

\* C15: when run_ad_task returns a failure result for a task whose context
\* was created, the context on disk records the failure: its error_log has an
\* entry naming the failing step, and the entry was there no later than
\* task_status became failed.
C15_FailureRecordedOnDisk ==
    /\ (pc = "done" /\ result.status = "failed" /\ context # NoContext) =>
          Logged(disk.error_log, Current)
    /\ (context # NoContext /\ disk.task_status = "failed") =>
          Logged(disk.error_log, Current)

\* round(i/7*100, 2) for i = 1..7, in hundredths: 14.29, 28.57, 42.86, 57.14,
\* 71.43, 85.71, 100.0
StatedProgress == << 1429, 2857, 4286, 5714, 7143, 8571, 10000 >>

\* C16: once step i of the fixed order has run, whatever its run returned,
\* progress is round(i/7*100, 2); it is already that while the run is under
\* way, and it depends on nothing but the step's place in the order.
C16_ProgressOfStep ==
    /\ pc = "run" => context.progress = StatedProgress[Place(Current)]
    /\ (dispatches # << >> /\ Last(dispatches).outcome \in RunOutcomes) =>
          context.progress = StatedProgress[Place(Last(dispatches).module)]

C16_Witness ==
    /\ pc = "done"
    /\ dispatches # << >>
    /\ Last(dispatches).module = "image_optimizer"
    /\ Last(dispatches).outcome = "raise"
    /\ context.progress = 8571

\* C17: throughout a task, revise re-dispatches and failure paths included,
\* progress lies in [0, 100] and no context update lowers it.
C17_ProgressMonotone ==
    /\ [](context.progress >= 0 /\ context.progress <= 10000)
    /\ [][tasks' = tasks => context'.progress >= context.progress]_vars

C17_Witness ==
    /\ pc = "run"
    /\ phase = "revise"
    /\ Current = "storyboard_designer"
    /\ context.progress = 5714
    /\ disk.progress = 5714

\* the module succeeded in some dispatch of this task
Succeeded(m) ==
    \E i \in 1..Len(dispatches) :
        dispatches[i].module = m /\ dispatches[i].outcome = "success"

\* C18: in the context, and in its snapshot on disk, the slot <module>_info
\* is present only if the module has succeeded at least once in this task; a
\* module that never ran or only failed has no slot
C18_SlotOnlyAfterSuccess ==
    \A m \in Modules :
        /\ (context # NoContext /\ InContext(InfoKey(m), context)) => Succeeded(m)
        /\ (disk # NoContext /\ InContext(InfoKey(m), disk)) => Succeeded(m)

\* story_builder succeeded, its revision failed: the slot of the first run stays
C18_Witness ==
    /\ pc = "done"
    /\ context.slots["story_builder_info"] = ResultOf("story_builder", 1)
    /\ context.module_status["story_builder"] = "failed"
    /\ ~InContext("scene_designer_info", context)

\* C19: whenever control is with a module, with the operator or back with the
\* caller, the snapshot on disk equals the context in memory
C19_DiskIsLatestSnapshot == context # NoContext => disk = context

\* C20: while a task lasts, every step leaves the error_log it found as a
\* prefix of the new error_log, in memory and on disk: entries are added at
\* the end, none is removed, reordered or rewritten
C20_ErrorLogAppendOnly ==
    [][tasks' = tasks =>
          /\ IsPrefix(context.error_log, context'.error_log)
          /\ IsPrefix(disk.error_log, disk'.error_log)]_vars

\* a task that began with an entry in its error_log has failed at a later
\* step: the dispatcher's entry and the scheduler's follow the earlier one
C20_Witness ==
    /\ pc = "done"
    /\ Len(context.error_log) = 3
    /\ context.error_log[1].step = "demand_interact"
    /\ context.error_log[2].step = "scene_designer"
    /\ context.error_log[3].step = "scene_designer"
    /\ disk.error_log = context.error_log

\* a dispatch whose call of _dispatch_module has returned to its caller
Returned(e) == e.outcome \in {"success", "failed", "raise", "invalid"}

\* C21: current_step is null until the first dispatch; once a call of
\* _dispatch_module for a module has returned, also after a failed validation,
\* current_step names that module; and the current_step of a failure result is
\* the current_step of its context
C21_CurrentStepIsLastAttempted ==
    /\ (context # NoContext /\ dispatches = << >>) => context.current_step = None
    /\ (dispatches # << >> /\ Returned(Last(dispatches)))
          => context.current_step = Last(dispatches).module
    /\ (pc = "done" /\ "current_step" \in result.keys)
          => result.current_step = context.current_step

\* the length of error_log right after the i-th dispatch was settled
LogLenAfter(i) ==
    IF i < Len(dispatches) THEN dispatches[i + 1].log_len
    ELSE Len(context.error_log)

\* C22: when a module that succeeded is dispatched again and run has come
\* back, module_status shows the outcome of the second attempt alone, the slot
\* holds the latest successful result (the second when it succeeded, else the
\* first, never both), and a successful second attempt leaves error_log as long
\* as it was
C22_RedispatchOverwrites ==
    \A i \in 1..Len(dispatches) :
        LET e == dispatches[i]
            m == e.module
        IN  (e.phase = "revise" /\ e.outcome \in RunOutcomes) =>
                /\ context.module_status[m] =
                       (IF e.outcome = "success" THEN "success" ELSE "failed")
                /\ context.slots[InfoKey(m)] =
                       ResultOf(m, IF e.outcome = "success" THEN 2 ELSE 1)
                /\ e.outcome = "success" => LogLenAfter(i) = e.log_len

\* story_builder was revised with success in a task whose error_log already
\* held an entry
C22_Witness ==
    /\ pc = "dispatch"
    /\ Current = "scene_designer"
    /\ Last(dispatches).phase = "revise"
    /\ Last(dispatches).outcome = "success"
    /\ context.slots["story_builder_info"] = ResultOf("story_builder", 2)
    /\ context.module_status["story_builder"] = "success"
    /\ Len(context.error_log) = 1

\* the snapshot shows the first three steps as succeeded, with their results
ThreeStepsDone(c) ==
    \A i \in 1..3 :
        /\ c.module_status[StatedOrder[i]] = "success"
        /\ InContext(InfoKey(StatedOrder[i]), c)

\* C23: when the snapshot on disk is that of an unfinished task whose first
\* three steps succeeded and the task is run on from it, the context in use
\* has the module_status and the result slots of the snapshot for those steps,
\* and the loop is entered at the snapshot's current_step, so none of the three
\* is dispatched again
C23_ResumeFromSnapshot ==
    [][(/\ pc = "done"
        /\ disk # NoContext
        /\ ThreeStepsDone(disk)
        /\ disk.task_status # "finished"
        /\ pc' = "dispatch")
          => /\ \A i \in 1..3 :
                   /\ context'.module_status[StatedOrder[i]] =
                          disk.module_status[StatedOrder[i]]
                   /\ context'.slots[InfoKey(StatedOrder[i])] =
                          disk.slots[InfoKey(StatedOrder[i])]
             /\ StatedOrder[idx'] = disk.current_step]_vars

\* the modules a context shows as busy
Busy(c) == { m \in Modules : c.module_status[m] = "busy" }

\* C24: no context, in memory or on disk, shows more than one module busy;
\* a module is busy only while its run is under way; and when a call of
\* _dispatch_module has returned the dispatched module is success or failed
C24_AtMostOneBusy ==
    /\ Cardinality(Busy(context)) <= 1
    /\ Cardinality(Busy(disk)) <= 1
    /\ pc # "run" => Busy(context) = {}
    /\ pc = "run" => Busy(context) = {Current}
    /\ (dispatches # << >> /\ Returned(Last(dispatches)))
          => context.module_status[Last(dispatches).module] \in {"success", "failed"}

\* scene_designer is running after two steps that succeeded
C24_Witness ==
    /\ pc = "run"
    /\ Current = "scene_designer"
    /\ Busy(context) = {"scene_designer"}
    /\ Busy(disk) = {"scene_designer"}
    /\ context.module_status["story_builder"] = "success"

\* C25: a fault raised by validate_input or by run never leaves
\* _dispatch_module; the call returns {status: failed, result, error}, with
\* the module failed and an entry in error_log
C25_FaultsCaughtInDispatcher ==
    /\ pc # "d_raised"
    /\ (dispatches # << >> /\ Last(dispatches).outcome \in {"raise", "raised"})
          => /\ DOMAIN module_result = {"status", "result", "error"}
             /\ module_result.status = "failed"
             /\ context.module_status[Last(dispatches).module] = "failed"
             /\ Len(context.error_log) = Last(dispatches).log_len + 1
             /\ Last(context.error_log).step = Last(dispatches).module

\* the dependency table of the specification
StatedRequires(m) ==
    CASE m = "demand_interact"      -> {}
      [] m = "story_builder"        -> {"demand_interact_info"}
      [] m = "scene_designer"       -> {"story_builder_info", "demand_interact_info"}
      [] m = "storyboard_designer"  -> {"scene_designer_info", "story_builder_info"}
      [] m = "grid_image_generator" -> {"storyboard_designer_info", "story_builder_info",
                                        "task_id"}
      [] m = "image_optimizer"      -> {"grid_image_generator_info", "task_id"}
      [] m = "video_generator"      -> {"image_optimizer_info", "scene_designer_info",
                                        "task_id"}

StatedPresent(m, c) ==
    /\ \A k \in StatedRequires(m) : InContext(k, c)
    /\ m = "demand_interact" => ValidInput(c)

\* C26: validate_input is true exactly when the fields the dependency table
\* lists for the module are present, and when it was true (run has been
\* called) every context key run reads is present, so that no run fails for a
\* missing key
C26_ValidateCoversRun ==
    /\ pc = "d_call" =>
          (validate_input(Current, context) = "true" <=> StatedPresent(Current, context))
    /\ pc = "d_run" => \A k \in RunReads(Current) : InContext(k, context)

\* every attempt of the last run's generation call failed
RetriesExhausted == gen_call.end \in {"raised", "gave up"}

\* C27: when run of a module with a retried generation call has come back and
\* every attempt of the call failed, the dispatch returned a failed outcome and
\* the module's status is failed; success is never reported for it
C27_ExhaustedRetriesFail ==
    (/\ dispatches # << >>
     /\ Last(dispatches).outcome \in RunOutcomes
     /\ Last(dispatches).module \in Retrying
     /\ RetriesExhausted)
        => /\ module_result.status = "failed"
           /\ context.module_status[Last(dispatches).module] = "failed"

\* module m has been dispatched in this task
Dispatched(m) == \E i \in 1..Len(dispatches) : dispatches[i].module = m

\* C28: a module whose status is not idle, in the context or in its snapshot
\* on disk, has been dispatched at least once in the current task
C28_NotIdleOnlyIfDispatched ==
    \A m \in Modules :
        /\ context.module_status[m] # "idle" => Dispatched(m)
        /\ disk.module_status[m] # "idle" => Dispatched(m)

\* the second task of a control plane, with one module done, one running and
\* the five others idle
C28_Witness ==
    /\ tasks = 2
    /\ pc = "run"
    /\ Current = "story_builder"
    /\ context.module_status["demand_interact"] = "success"
    /\ context.module_status["story_builder"] = "busy"
    /\ \A m \in Modules \ {"demand_interact", "story_builder"} :
           context.module_status[m] = "idle" /\ ~Dispatched(m)

\* C29: while run of a module is under way, the snapshot on disk is the
\* context as lines 98-102 left it: the module busy, current_step the module,
\* progress that of the module's step
C29_BusySavedBeforeRun ==
    pc = "run" =>
        /\ disk.module_status[Current] = "busy"
        /\ disk.current_step = Current
        /\ disk.progress = StatedProgress[Place(Current)]
        /\ disk = context

\* the revision of story_builder is running: the snapshot shows busy a module
\* that had succeeded, and holds the feedback
C29_Witness ==
    /\ pc = "run"
    /\ phase = "revise"
    /\ Current = "story_builder"
    /\ disk.module_status["story_builder"] = "busy"
    /\ disk.slots["story_builder_info"] = ResultOf("story_builder", 1)
    /\ disk.user_feedback = "G"
    /\ disk.progress = 2857

\* how often module m has been dispatched in this task
TimesDispatched(m) ==
    Cardinality({ i \in 1..Len(dispatches) : dispatches[i].module = m })

\* C30: in one task a pause-node module is dispatched at most twice and any
\* other module at most once, nine dispatches at most; the operator is asked
\* only after a first dispatch, and after a revision that succeeded the loop is
\* at the first dispatch of the next step
C30_SingleRevision ==
    /\ Len(dispatches) <= 9
    /\ \A m \in Modules :
          TimesDispatched(m) <= (IF m \in StatedPauseNodes THEN 2 ELSE 1)
    /\ pc = "confirm" => Last(dispatches).phase = "first"
    /\ (/\ dispatches # << >>
        /\ Last(dispatches).phase = "revise"
        /\ Last(dispatches).outcome = "success")
          => /\ pc = "dispatch"
             /\ phase = "first"
             /\ Place(Current) = Place(Last(dispatches).module) + 1

\* a task that took both revisions and ran every module
C30_Witness ==
    /\ pc = "done"
    /\ Len(dispatches) = 9
    /\ TimesDispatched("story_builder") = 2
    /\ TimesDispatched("storyboard_designer") = 2
    /\ Last(dispatches).module = "video_generator"

\* C31: in run_ad_task every dispatch after the first step, and every
\* re-dispatch of a revision, finds the keys its validate_input asks for; only
\* the dispatch of the first step has ever failed validation
C31_ValidationFailsOnlyAtFirstStep ==
    /\ (pc = "dispatch" /\ (Place(Current) >= 2 \/ phase = "revise"))
          => /\ validate_input(Current, context) = "true"
             /\ \A k \in RequiredKeys(Current) : InContext(k, context)
    /\ \A i \in 1..Len(dispatches) :
          dispatches[i].outcome \in {"invalid", "raised"}
             => /\ dispatches[i].module = StatedOrder[1]
                /\ dispatches[i].phase = "first"

\* the last step is about to be dispatched, after both revisions
C31_Witness ==
    /\ pc = "dispatch"
    /\ Current = "video_generator"
    /\ Len(dispatches) = 8
    /\ validate_input(Current, context) = "true"

\* C32: running tasks never changes the control plane's template, and the
\* context init_ad_task returns for a new task has an empty error_log and every
\* module idle, whatever the earlier tasks on the control plane did
C32_TasksIsolated ==
    /\ template_error_log = << >>
    /\ (pc = "dispatch" /\ dispatches = << >>)
          => /\ context.error_log = << >>
             /\ \A m \in Modules : context.module_status[m] = "idle"

\* C33: a task's context, in memory and on disk, is processing, failed or
\* finished, never paused or init; it is processing while the operator is
\* asked; and within a task the status either stays or goes from processing to
\* failed or to finished
C33_TaskStatusTransitions ==
    /\ [](context # NoContext =>
             /\ context.task_status \in {"processing", "failed", "finished"}
             /\ disk.task_status \in {"processing", "failed", "finished"}
             /\ pc \in {"dispatch", "run", "confirm"} => context.task_status = "processing")
    /\ [][tasks' = tasks =>
             \/ context'.task_status = context.task_status
             \/ /\ context.task_status = "processing"
                /\ context'.task_status \in {"failed", "finished"}]_vars

\* the loop is blocked at the second pause node
C33_Witness ==
    /\ pc = "confirm"
    /\ Current = "storyboard_designer"
    /\ context.task_status = "processing"
    /\ disk.task_status = "processing"

\* the re-dispatches of module m in this task
Redispatches(m) ==
    { i \in 1..Len(dispatches) :
          dispatches[i].module = m /\ dispatches[i].phase = "revise" }

\* C34: when the operator asked for a revision of a pause-node module and
\* typed nothing (or blanks only), the module is re-dispatched once, and the
\* context of that call, and of its run, holds no user_feedback key
C34_EmptyFeedbackRedispatch ==
    \A m \in StatedPauseNodes :
        (decisions[m].answer = "revise" /\ decisions[m].feedback = "") =>
            /\ \/ pc = "dispatch" /\ phase = "revise" /\ Current = m
                  /\ Redispatches(m) = {}
               \/ Cardinality(Redispatches(m)) = 1
            /\ \A i \in Redispatches(m) :
                  dispatches[i].ran /\ dispatches[i].user_feedback = NoFeedback
            /\ (phase = "revise" /\ Current = m /\ pc \in {"dispatch", "run"})
                  => context.user_feedback = NoFeedback

\* storyboard_designer runs again after a revision without feedback
C34_Witness ==
    /\ pc = "run"
    /\ phase = "revise"
    /\ Current = "storyboard_designer"
    /\ decisions["storyboard_designer"] = [answer |-> "revise", feedback |-> ""]
    /\ Last(dispatches).user_feedback = NoFeedback
    /\ TimesDispatched("storyboard_designer") = 2

\* C35: when the re-dispatch of a revision has failed, the task has returned
\* with a context, the same as on disk, in which the module's slot still holds
\* the result of its first dispatch, the module is failed and the task is failed
C35_FailedReviseKeepsSlot ==
    (/\ dispatches # << >>
     /\ Last(dispatches).phase = "revise"
     /\ Last(dispatches).outcome \in {"failed", "raise"})
        => LET m == Last(dispatches).module
           IN  /\ pc = "done"
               /\ result.context = context
               /\ disk = context
               /\ context.slots[InfoKey(m)] = ResultOf(m, 1)
               /\ context.module_status[m] = "failed"
               /\ context.task_status = "failed"

\* the revision of storyboard_designer raised
C35_Witness ==
    /\ pc = "done"
    /\ dispatches # << >>
    /\ Last(dispatches).module = "storyboard_designer"
    /\ Last(dispatches).phase = "revise"
    /\ Last(dispatches).outcome = "raise"
    /\ result.context.slots["storyboard_designer_info"] = ResultOf("storyboard_designer", 1)
    /\ result.context.module_status["storyboard_designer"] = "failed"

\* C36: whenever run_ad_task has returned, is asking the operator, or is about
\* to dispatch a step for the first time, the snapshot on disk has no
\* user_feedback key, although the snapshots written while a revision ran had it
C36_FeedbackNotLeftOnDisk ==
    (\/ pc \in {"done", "confirm"}
     \/ pc = "dispatch" /\ phase = "first")
        => disk.user_feedback = NoFeedback

\* a revision that was given feedback has failed and the task has returned
C36_Witness ==
    /\ pc = "done"
    /\ dispatches # << >>
    /\ Last(dispatches).phase = "revise"
    /\ Last(dispatches).user_feedback = "F"
    /\ Last(dispatches).outcome = "failed"
    /\ disk.user_feedback = NoFeedback
    /\ disk.task_status = "failed"

\* the text the generate button of a manual stage passes on for the dispatch
\* it makes: the box's text, or no user_feedback at all for an empty box
TypedFor(e) ==
    IF /\ e.module \in {PAUSE_NODES[i] : i \in 1..Len(PAUSE_NODES)}
       /\ decisions[e.module].feedback # ""
    THEN decisions[e.module].feedback
    ELSE NoFeedback

\* C37: in the front end every dispatch sees only the feedback typed for it:
\* a regenerate is given the text of its own box (none for an empty box), a
\* step that is not a regenerate is given none, and while the page waits for
\* the user the task context holds no user_feedback, whatever the outcome of
\* the last dispatch was
C37_FeedbackForOneDispatch ==
    /\ dispatches # << >> => Last(dispatches).user_feedback = TypedFor(Last(dispatches))
    /\ (pc = "a_wait" /\ context # NoContext) => context.user_feedback = NoFeedback

\* C38: after reset no completion flag is left in the session, and whenever
\* the page of an automatic stage waits with the stage's flag set, the stage's
\* module has been dispatched in this task and its result is in the context,
\* so the button to the next stage is there
C38_ResetIsFresh ==
    /\ session_state.current_stage = 0 => session_state.flags = {}
    /\ (/\ pc = "a_wait"
        /\ session_state.current_stage \in AutoStages
        /\ StageFlag(session_state.current_stage) \in session_state.flags)
          => /\ Dispatched(Current)
             /\ InContext(InfoKey(Current), context)
             /\ ~session_state.error

\* C39: in the front end a failed dispatch fails the task: once a dispatch has
\* ended with validation false, a failed result or an exception, the task's
\* status is failed, and no dispatch follows it in that task
C39_FailedDispatchFailsTask ==
    /\ (/\ dispatches # << >>
        /\ FailedCall(Last(dispatches))
        /\ context # NoContext)
          => context.task_status = "failed"
    /\ \A i \in 1..(Len(dispatches) - 1) : ~FailedCall(dispatches[i])
====
